---- MODULE Spec2Model ----
(***************************************************************************)
(* Credential lifecycle and authenticated request execution of the Eka MCP *)
(* server (src/eka_mcp_server/eka_interface.py, class EkaMCP) together     *)
(* with the tool dispatcher that drives it (src/eka_mcp_server/            *)
(* mcp_server.py).                                                         *)
(*                                                                         *)
(* Process 0 is the main thread: it runs EkaMCP.__init__ and then serves.  *)
(* Processes 1..NumCallers are callers of the shared EkaMCP instance.  The *)
(* class holds no lock, so a caller can be pre-empted between any two of   *)
(* its steps; a step is one blocking network exchange together with the    *)
(* local computation that follows it up to the next exchange.              *)
(*                                                                         *)
(* The legacy client (src/eka_mcp_server/eka_mcp.py, class EkaMCP, copied  *)
(* in src/eka_assist/eka_mcp.py) is modelled over the same variables with  *)
(* its own actions and its own specification, SpecLegacy.                  *)
(***************************************************************************)
EXTENDS Integers, FiniteSets, Sequences, TLC

\* ------------------------------------------------------------------ bounds
NumCallers == 2
MaxTime    == 1
MaxIssued  == 6
MaxCalls   == 2
MaxProtocols == 3

\* ------------------------------------------------------- program constants
Margin == 120

Callers == 1..NumCallers
Procs   == 0..NumCallers

None == [none |-> TRUE]

\* Lifetimes the issuer may give an access token.  A token whose lifetime
\* is Margin is inside the margin the moment it is issued; one of Margin + 1
\* enters the margin one second later.
LongLifetimes == {Margin + 1}
AnyLifetimes  == LongLifetimes \cup {Margin}

\* Outcome of one HTTP exchange: a 2xx response, a non-2xx response, or no
\* response at all (timeout, connection refused).
Responses == {"ok", "status", "transport"}

\* ------------------------------------------------------------- dispatcher
ToolNames == {"medication_understanding", "medication_interaction",
              "search_protocols", "protocol_publishers"}

\* tool_handlers and the client method each handler calls
ToolOperation(name) ==
    CASE name = "medication_understanding" -> "get_suggested_drugs"
      [] name = "medication_interaction"   -> "get_drug_interactions"
      [] name = "search_protocols"         -> "get_protocols"
      [] name = "protocol_publishers"      -> "get_protocol_publisher"

\* the operation methods that eka_interface.EkaMCP defines
ClientOperations == {"get_all_supported_tags", "get_all_supported_publishers",
                     "get_protocols", "get_protocol_publisher",
                     "get_suggested_drugs"}

\* the _make_request call each operation method makes
OperationRequest(op) ==
    CASE op = "get_all_supported_tags"       -> [method |-> "get",  endpoint |-> "protocols/v1/tags"]
      [] op = "get_all_supported_publishers" -> [method |-> "get",  endpoint |-> "protocols/v1/publishers"]
      [] op = "get_protocols"                -> [method |-> "post", endpoint |-> "protocols/v1/search"]
      [] op = "get_protocol_publisher"       -> [method |-> "get",  endpoint |-> "protocols/v1/publishers/tag"]
      [] op = "get_suggested_drugs"          -> [method |-> "get",  endpoint |-> "medications/v1/search"]

\* str.lower() on the verbs that occur
Lower(m) ==
    CASE m = "GET"   -> "get"
      [] m = "POST"  -> "post"
      [] m = "PATCH" -> "patch"
      [] OTHER       -> m

\* ------------------------------------------------------------------ tokens
\* An access token is a JWT: an opaque string that carries a payload.  The
\* issuer may or may not put an exp claim in it.
PayloadsAt(t, lifetimes) == {[exp |-> t + l] : l \in lifetimes}
NoExpPayload == [iss |-> "eka"]

\* jwt.decode(token, options={"verify_signature": False})
jwt_decode(token) == token.payload

\* dict.get(key, default)
DictGet(d, key, default) == IF key \in DOMAIN d THEN d[key] ELSE default

\* the body of a 2xx answer of the login or refresh endpoint
TokenPair(n, payload) ==
    [access_token |-> [id |-> n, payload |-> payload], refresh_token |-> n]

VARIABLES
    now,         \* int(time.time())
    issued,      \* number of token pairs the issuer has handed out
    auth_creds,  \* EkaMCP.auth_creds, None while __init__ has not set it
    pc,          \* position of each process
    req,         \* the _make_request call a caller is in: method, endpoint
    creds,       \* local auth_creds of _get_auth_creds (the login answer)
    headers,     \* access token put in the Authorization header
    sent,        \* requests sent by the current call, per endpoint class
    chk,         \* the credential check of the current call: the credential
                 \* it examined, the expiry it read, when it read the clock
                 \* and when it returned
    result,      \* how the last call of the process ended
    calls,       \* number of calls begun so far
    env,         \* the surroundings of the client: which issuer answers
                 \* and whether callers run concurrently
    log,         \* the issuer's record: the endpoint that handed out each pair
    failed,      \* credentials that were cached when a check ended with
                 \* RefreshTokenError, and how many pairs were issued by then
    reply,       \* the 2xx body of the resource request of the last call of
                 \* a caller and the value _make_request returned for it
    identity,    \* api_url, client_id and client_secret of the instance
    client,      \* the attribute self.client: the httpx pool, or not yet set
    tools,       \* the tools the last handle_list_tools of a caller returned
    search       \* the frame of _handle_search_protocols: the protocols
                 \* get_protocols returned, the position of the loop, how
                 \* each download ended and the output list

vars == <<now, issued, auth_creds, pc, req, creds, headers, sent, chk, result, calls,
          env, log, failed, reply, identity, client, tools, search>>

NoSent == [login |-> 0, refresh |-> 0, resource |-> 0]

Ok == [kind |-> "ok", at |-> "resource", cause |-> "none"]
Failure(kind, at, cause) == [kind |-> kind, at |-> at, cause |-> cause]

\* the arguments EkaMCP is constructed with
Identity == [api_url |-> "https://api.eka.care", client_id |-> "client",
             client_secret |-> "secret"]

InitWith(issuer, threads) ==
    /\ env = [issuer |-> issuer, threads |-> threads]
    /\ now = 0
    /\ issued = 0
    /\ auth_creds = None
    /\ pc = [p \in Procs |-> IF p = 0 THEN "login" ELSE "idle"]
    /\ req = [p \in Procs |-> None]
    /\ creds = [p \in Procs |-> None]
    /\ headers = [p \in Procs |-> None]
    /\ sent = [p \in Procs |-> NoSent]
    /\ chk = [p \in Procs |-> None]
    /\ result = [p \in Procs |-> None]
    /\ calls = 0
    /\ log = <<>>
    /\ failed = {}
    /\ reply = [p \in Procs |-> None]
    /\ identity = Identity
    /\ client = "pool"
    /\ tools = [p \in Procs |-> {}]
    /\ search = None

\* The clock only moves forward.
Tick ==
    /\ now < MaxTime
    /\ now' = now + 1
    /\ UNCHANGED <<issued, auth_creds, pc, req, creds, headers, sent, chk, result, calls, env, identity, client, tools, search, log, failed, reply>>

\* ------------------------------------------------------------ call entries
Quiescent_Suspended == \A t \in Callers : pc[t] \in {"idle", "headers"}

\* no call is in progress
Quiescent == \A t \in Callers : pc[t] = "idle"

\* A caller enters a call: a fresh frame, the counters of the call at zero.
Begin(t, rq, nextpc, res) ==
    /\ pc[0] = "ready"
    /\ pc[t] = "idle"
    /\ env.threads \/ Quiescent
    /\ calls < MaxCalls
    /\ calls' = calls + 1
    /\ pc' = [pc EXCEPT ![t] = nextpc]
    /\ req' = [req EXCEPT ![t] = rq]
    /\ sent' = [sent EXCEPT ![t] = NoSent]
    /\ result' = [result EXCEPT ![t] = res]
    /\ reply' = [reply EXCEPT ![t] = None]
    /\ tools' = [tools EXCEPT ![t] = {}]
    /\ UNCHANGED <<now, issued, auth_creds, creds, headers, chk, env, identity, client, search, log, failed>>

AfterRejection_Dispatch(name) == "validate"

\* where handle_call_tool is after raise ValueError: outside, no handler called
AfterRejection(name) == "idle"

\* handle_call_tool(name, arguments) up to the first step of _make_request
handle_call_tool(t) ==
    \E name \in ToolNames \cup {"unknown_tool"}, arguments \in {"empty", "nonempty"} :
        IF arguments = "empty"
        THEN Begin(t, None, AfterRejection(name), Failure("ValueError", "dispatch", name))
        ELSE IF name \notin ToolNames
        THEN Begin(t, None, AfterRejection(name), Failure("ValueError", "dispatch", name))
        ELSE IF ToolOperation(name) \notin ClientOperations
        THEN Begin(t, None, "idle", Failure("AttributeError", "dispatch", name))
        ELSE Begin(t, OperationRequest(ToolOperation(name)), "validate", None)

\* handle_list_tools: get_supported_tags -> get_all_supported_tags
handle_list_tools(t) ==
    Begin(t, OperationRequest("get_all_supported_tags"), "validate", None)

\* a direct _make_request(method, endpoint) with a verb the client lacks
_make_request(t) ==
    Begin(t, [method |-> "PATCH", endpoint |-> "protocols/v1/publishers"],
          "validate", None)

\* -------------------------------------------------------- credential check
\* the payloads the issuer may put in an access token it hands out now
IssuerPayloads ==
    IF env.issuer = "long"
    THEN PayloadsAt(now, LongLifetimes)
    ELSE PayloadsAt(now, AnyLifetimes) \cup {NoExpPayload}

Expiring_OffByOne(current_time, exp_at) == current_time >= exp_at - Margin - 1

Expiring_NoMargin(current_time, exp_at) == current_time >= exp_at

\* the test of _validate_and_gen_token
Expiring(current_time, exp_at) == current_time >= exp_at - Margin

_validate_and_gen_token(t) ==
    /\ pc[t] = "validate"
    /\ LET exp_at == DictGet(auth_creds.jwt_payload, "exp", 0)
       IN /\ pc' = [pc EXCEPT ![t] = IF Expiring(now, exp_at) THEN "login" ELSE "headers"]
          /\ chk' = [chk EXCEPT ![t] = [cred |-> auth_creds.refresh_token,
                                        exp_at |-> exp_at, at |-> now, ret |-> now,
                                        got |-> auth_creds.refresh_token]]
    /\ UNCHANGED <<now, issued, auth_creds, req, creds, headers, sent, result, calls, env, identity, client, tools, search, log, failed, reply>>

\* where a process goes when an exchange of the credential check fails: the
\* exception leaves _make_request (a caller) or __init__ (the main thread)
Raised(p) == IF p = 0 THEN "crashed" ELSE "idle"

\* exception class raised by _get_client_token for a failed exchange
CreateTokenKind(resp) == "CreateTokenError"

\* exception class raised by _get_refresh_token for a failed exchange
RefreshTokenKind(resp) == "RefreshTokenError"

AfterLoginFailure_Retry(p) == "login"

AfterLoginFailure_Ready(p) == IF p = 0 THEN "ready" ELSE "idle"

AfterLoginFailure_Swallow(p) == IF p = 0 THEN "crashed" ELSE "headers"

\* where a process goes after a failed login exchange
AfterLoginFailure(p) == Raised(p)

\* _get_client_token: POST /connect-auth/v1/account/login
_get_client_token(p) ==
    /\ pc[p] = "login"
    /\ sent' = [sent EXCEPT ![p].login = @ + 1]
    /\ \E resp \in Responses :
        IF resp = "ok"
        THEN /\ issued < MaxIssued
             /\ \E pl \in IssuerPayloads :
                    creds' = [creds EXCEPT ![p] = TokenPair(issued + 1, pl)]
             /\ issued' = issued + 1
             /\ log' = Append(log, "login")
             /\ pc' = [pc EXCEPT ![p] = "refresh"]
             /\ UNCHANGED <<result, req, chk>>
        ELSE /\ pc' = [pc EXCEPT ![p] = AfterLoginFailure(p)]
             /\ result' = [result EXCEPT ![p] = Failure(CreateTokenKind(resp), "login", resp)]
             /\ req' = [req EXCEPT ![p] = None]
             /\ chk' = [chk EXCEPT ![p] = None]
             /\ UNCHANGED <<creds, issued, log>>
    /\ UNCHANGED <<now, auth_creds, headers, calls, env, identity, client, tools, search, failed, reply>>

\* the value _get_auth_creds returns for the answer of the refresh endpoint
WithPayload(pair) ==
    [access_token |-> pair.access_token,
     refresh_token |-> pair.refresh_token,
     jwt_payload |-> jwt_decode(pair.access_token)]

KeptOnFailure_Partial(current, local) == WithPayload(local)

\* self.auth_creds after a failed exchange of _get_auth_creds: the exception
\* passes the assignment by
KeptOnFailure(current, local) == current

AfterRefreshFailure_Swallow(p) == IF p = 0 THEN "crashed" ELSE "headers"

\* where a process goes after a failed refresh exchange
AfterRefreshFailure(p) == Raised(p)

Replaced_Discarded(current, returned) ==
    IF current = None THEN returned ELSE current

Replaced_Patch(current, returned) ==
    IF current = None THEN returned
    ELSE [current EXCEPT !.access_token = returned.access_token]

\* self.auth_creds = self._get_auth_creds(): the attribute is rebound to the
\* returned dict
Replaced(current, returned) == returned

OtherAttributes_Rotated(attributes, returned) ==
    IF returned = None THEN attributes
    ELSE [attributes EXCEPT !.client_secret = "rotated"]

\* api_url, client_id and client_secret after that assignment: the statement
\* binds auth_creds and nothing else
OtherAttributes(attributes, returned) == attributes

\* _get_refresh_token called by _get_auth_creds, then the rest of
\* _get_auth_creds and the assignment to self.auth_creds
_get_refresh_token(p) ==
    /\ pc[p] = "refresh"
    /\ sent' = [sent EXCEPT ![p].refresh = @ + 1]
    /\ \E resp \in Responses :
        IF resp = "ok"
        THEN /\ issued < MaxIssued
             /\ \E pl \in IssuerPayloads :
                    /\ auth_creds' = Replaced(auth_creds, WithPayload(TokenPair(issued + 1, pl)))
                    /\ identity' = OtherAttributes(identity, WithPayload(TokenPair(issued + 1, pl)))
             /\ issued' = issued + 1
             /\ log' = Append(log, "refresh")
             /\ pc' = [pc EXCEPT ![p] = IF p = 0 THEN "ready" ELSE "headers"]
             /\ chk' = [chk EXCEPT ![p] = IF p = 0 THEN @
                                          ELSE [@ EXCEPT !.ret = now, !.got = issued + 1]]
             /\ UNCHANGED <<result, req, failed>>
        ELSE /\ pc' = [pc EXCEPT ![p] = AfterRefreshFailure(p)]
             /\ result' = [result EXCEPT ![p] = Failure(RefreshTokenKind(resp), "refresh", resp)]
             /\ auth_creds' = KeptOnFailure(auth_creds, creds[p])
             /\ req' = [req EXCEPT ![p] = None]
             /\ chk' = [chk EXCEPT ![p] = None]
             /\ failed' = IF p = 0 THEN failed
                          ELSE failed \cup {[cred |-> auth_creds.refresh_token,
                                             issued |-> issued]}
             /\ UNCHANGED <<issued, log, identity>>
    /\ creds' = [creds EXCEPT ![p] = None]
    /\ UNCHANGED <<now, headers, calls, env, client, tools, search, reply>>

\* ---------------------------------------------------------- primary request
\* headers = {"Authorization": f"Bearer {self.auth_creds['access_token']}"}
BuildHeaders(t) ==
    /\ pc[t] = "headers"
    /\ headers' = [headers EXCEPT ![t] = auth_creds.access_token]
    /\ pc' = [pc EXCEPT ![t] = "send"]
    /\ UNCHANGED <<now, issued, auth_creds, req, creds, sent, chk, result, calls, env, identity, client, tools, search, log, failed, reply>>

SupportedMethods == {"get", "post"}

Listed_Always(resp) == ToolNames

\* what handle_list_tools returns for the outcome of its tags request: the
\* four tools, or nothing when get_supported_tags raised
Listed(resp) == IF resp = "ok" THEN ToolNames ELSE {}

\* The body of a 2xx answer of a resource endpoint as it is on the wire: the
\* members of a JSON object in the order they are written, each a name and a
\* value.
JsonBodies == { <<>>,
                << <<"text", "fever">> >>,
                << <<"text", "fever">>, <<"url", "https://cdn/p1">> >> }

\* the member names written in a body
Names(body) == {body[i][1] : i \in DOMAIN body}

response_json_TextOnly(body) ==
    [k \in Names(body) \cap {"text"} |->
        body[CHOOSE i \in DOMAIN body :
                /\ body[i][1] = k
                /\ \A j \in DOMAIN body : body[j][1] = k => j <= i][2]]

\* response.json(): the dict the parser builds, one key per member name, the
\* last member of a name giving its value
response_json(body) ==
    [k \in Names(body) |->
        body[CHOOSE i \in DOMAIN body :
                /\ body[i][1] = k
                /\ \A j \in DOMAIN body : body[j][1] = k => j <= i][2]]

\* exception that leaves _make_request for a failed resource exchange: the
\* httpx exception is re-raised as it is
ResourceErrorKind(resp) ==
    IF resp = "status" THEN "HTTPStatusError" ELSE "TransportError"

AfterResponse_Retry(resp) == IF resp = "status" THEN "validate" ELSE "idle"

AfterResponse_Wait(resp) == IF resp = "transport" THEN "waiting" ELSE "idle"

\* where the caller goes after the answer of the resource request
AfterResponse(resp) == "idle"

\* the try block of _make_request
SendRequest(t) ==
    /\ pc[t] = "send"
    /\ IF Lower(req[t].method) \notin SupportedMethods
       THEN /\ pc' = [pc EXCEPT ![t] = "idle"]
            /\ result' = [result EXCEPT ![t] = Failure("ValueError", "method", "unsupported")]
            /\ UNCHANGED <<sent, reply, tools>>
       ELSE /\ sent' = [sent EXCEPT ![t].resource = @ + 1]
            /\ \E resp \in Responses :
                /\ pc' = [pc EXCEPT ![t] = AfterResponse(resp)]
                /\ result' = [result EXCEPT ![t] =
                                IF resp = "ok" THEN Ok
                                ELSE Failure(ResourceErrorKind(resp), "resource", resp)]
                /\ IF resp = "ok"
                   THEN \E body \in JsonBodies :
                            reply' = [reply EXCEPT ![t] =
                                        [body |-> body, value |-> response_json(body)]]
                   ELSE UNCHANGED reply
                /\ tools' = [tools EXCEPT ![t] =
                                IF req[t].endpoint = "protocols/v1/tags"
                                THEN Listed(resp) ELSE @]
    /\ req' = [req EXCEPT ![t] = IF pc'[t] = "idle" THEN None ELSE @]
    /\ chk' = [chk EXCEPT ![t] = IF pc'[t] = "idle" THEN None ELSE @]
    /\ headers' = [headers EXCEPT ![t] = IF pc'[t] = "idle" THEN None ELSE @]
    /\ UNCHANGED <<now, issued, auth_creds, creds, calls, env, identity, client, search, log, failed>>

\* ------------------------------------------------------------ legacy client
\* eka_mcp.EkaMCP (src/eka_mcp_server/eka_mcp.py): the credential is the
\* answer of the refresh endpoint with an expires_at the client adds to it.
\* lifetimes (expires_in) the issuer may answer with
IssuerLifetimes == IF env.issuer = "long" THEN LongLifetimes ELSE AnyLifetimes

\* the operation methods of eka_mcp.EkaMCP and a verb the client lacks
LegacyRequests ==
    {OperationRequest(op) : op \in ClientOperations}
        \cup {[method |-> "post", endpoint |-> "medications/v1/interaction"],
              [method |-> "PATCH", endpoint |-> "protocols/v1/publishers"]}

\* a caller enters _make_request of the legacy client
legacy_make_request(t) ==
    \E rq \in LegacyRequests : Begin(t, rq, "legacy_check", None)

\* sys.exit(1): SystemExit ends the process, no further call begins
Exited(p) == [pc EXCEPT ![p] = "exited", ![0] = "exited"]

\* how a failed exchange of the legacy client ends: a non-200 answer calls
\* sys.exit(1), a missing answer lets the httpx exception through
LegacyFailure(p, at, resp) ==
    /\ pc' = IF resp = "status" THEN Exited(p) ELSE [pc EXCEPT ![p] = Raised(p)]
    /\ result' = [result EXCEPT ![p] =
                    Failure(IF resp = "status" THEN "SystemExit" ELSE "TransportError",
                            at, resp)]
    /\ req' = [req EXCEPT ![p] = None]
    /\ chk' = [chk EXCEPT ![p] = None]

\* whether self.client exists when a method reads it
HasClient(attribute) == attribute = "pool"

\* _get_client_token of the legacy client, up to its call of
\* _get_refresh_token(resp.json())
legacy_get_client_token(p) ==
    /\ pc[p] = "legacy_login"
    /\ IF ~HasClient(client)
       THEN \* self.client.post with no attribute client: AttributeError
            /\ pc' = [pc EXCEPT ![p] = Raised(p)]
            /\ result' = [result EXCEPT ![p] = Failure("AttributeError", "login", "client")]
            /\ UNCHANGED <<sent, creds, issued, log, req, chk>>
       ELSE /\ sent' = [sent EXCEPT ![p].login = @ + 1]
            /\ \E resp \in Responses :
                IF resp = "ok"
                THEN /\ issued < MaxIssued
                     /\ \E l \in IssuerLifetimes :
                            creds' = [creds EXCEPT ![p] = TokenPair(issued + 1, [exp |-> now + l])]
                     /\ issued' = issued + 1
                     /\ log' = Append(log, "login")
                     /\ pc' = [pc EXCEPT ![p] = "legacy_refresh"]
                     /\ UNCHANGED <<result, req, chk>>
                ELSE /\ LegacyFailure(p, "login", resp)
                     /\ UNCHANGED <<creds, issued, log>>
    /\ UNCHANGED <<now, auth_creds, headers, calls, env, identity, client, tools, search, failed, reply>>

\* _get_refresh_token of the legacy client up to the moment the request is
\* on the wire: the clock is read before the POST
legacy_get_refresh_token(p) ==
    /\ pc[p] = "legacy_refresh"
    /\ creds' = [creds EXCEPT ![p] =
                    [access_token |-> @.access_token,
                     refresh_token |-> @.refresh_token,
                     current_time |-> now]]
    /\ sent' = [sent EXCEPT ![p].refresh = @ + 1]
    /\ pc' = [pc EXCEPT ![p] = "legacy_response"]
    /\ UNCHANGED <<now, issued, auth_creds, req, headers, chk, result, calls, env, identity, client, tools, search,
                   log, failed, reply>>

\* creds["expires_at"] = current_time + creds["expires_in"]
ExpiresAt(request_time, response_time, expires_in) == request_time + expires_in

\* the rest of _get_refresh_token of the legacy client: the answer arrives,
\* the caller binds self.auth_creds to it
legacy_refresh_response(p) ==
    /\ pc[p] = "legacy_response"
    /\ \E resp \in Responses :
        IF resp = "ok"
        THEN /\ issued < MaxIssued
             /\ \E l \in IssuerLifetimes :
                    LET pair == TokenPair(issued + 1, [exp |-> now + l])
                    IN auth_creds' =
                        [access_token |-> pair.access_token,
                         refresh_token |-> pair.refresh_token,
                         expires_in |-> l,
                         expires_at |-> ExpiresAt(creds[p].current_time, now, l)]
             /\ issued' = issued + 1
             /\ log' = Append(log, "refresh")
             /\ pc' = [pc EXCEPT ![p] = IF p = 0 THEN "ready" ELSE "headers"]
             /\ chk' = [chk EXCEPT ![p] = IF p = 0 THEN @
                                          ELSE [@ EXCEPT !.ret = now, !.got = issued + 1]]
             /\ UNCHANGED <<result, req>>
        ELSE /\ LegacyFailure(p, "refresh", resp)
             /\ UNCHANGED <<auth_creds, issued, log>>
    /\ creds' = [creds EXCEPT ![p] = None]
    /\ UNCHANGED <<now, headers, sent, calls, env, identity, client, tools, search, failed, reply>>

LegacyMargin == 60

\* the test of _refresh_auth_token
LegacyExpiring(current_time, expires_at) == current_time - expires_at <= LegacyMargin

\* _refresh_auth_token up to its call of _get_refresh_token(auth_creds)
legacy_refresh_auth_token(t) ==
    /\ pc[t] = "legacy_check"
    /\ pc' = [pc EXCEPT ![t] = IF LegacyExpiring(now, auth_creds.expires_at)
                               THEN "legacy_refresh" ELSE "headers"]
    /\ creds' = [creds EXCEPT ![t] =
                    IF LegacyExpiring(now, auth_creds.expires_at)
                    THEN [access_token |-> auth_creds.access_token,
                          refresh_token |-> auth_creds.refresh_token]
                    ELSE @]
    /\ chk' = [chk EXCEPT ![t] = [cred |-> auth_creds.refresh_token,
                                  exp_at |-> auth_creds.expires_at,
                                  at |-> now, ret |-> now,
                                  got |-> auth_creds.refresh_token]]
    /\ UNCHANGED <<now, issued, auth_creds, req, headers, sent, result, calls, env, identity, client, tools, search,
                   log, failed, reply>>

\* ----------------------------------------------------------- search handler
\* _handle_search_protocols after get_protocols has returned: the loop over
\* the protocols with one download each.
Urls == {"https://cdn/p1", "https://cdn/p2"}

\* a protocol as get_protocols returns it; one may lack the url member
ProtocolObjects == {[url |-> u] : u \in Urls} \cup {[title |-> "untitled"]}

ProtocolLists == UNION {[1..n -> ProtocolObjects] : n \in 0..MaxProtocols}

\* how a call of download_image ends: it returns the bytes or raises
DownloadOutcomes == {"data", "raise"}

\* types.ImageContent(type="image", data=data, mimeType="image/jpeg")
ImageContent(url) ==
    [type |-> "image", data |-> [downloaded |-> url], mimeType |-> "image/jpeg"]

Appended_Placeholder(output, outcome, url) ==
    Append(output, ImageContent(IF outcome = "data" THEN url ELSE "None"))

\* the try statement of the loop: the image is appended when download_image
\* returned, the exception is logged and dropped when it raised
Appended(output, outcome, url) ==
    IF outcome = "data" THEN Append(output, ImageContent(url)) ELSE output

\* one iteration of the loop of _handle_search_protocols
download_image ==
    /\ search # None
    /\ search.pc = "loop"
    /\ search.i < Len(search.protocols)
    /\ LET protocol == search.protocols[search.i + 1]
           url == DictGet(protocol, "url", "None")
       IN \E outcome \in DownloadOutcomes :
            search' = [search EXCEPT !.i = @ + 1,
                                     !.fetched = Append(@, outcome),
                                     !.output = Appended(@, outcome, url)]
    /\ UNCHANGED <<now, issued, auth_creds, pc, req, creds, headers, sent, chk, result,
                   calls, env, log, failed, reply, identity, client, tools>>

\* return output
_handle_search_protocols ==
    /\ search # None
    /\ search.pc = "loop"
    /\ search.i = Len(search.protocols)
    /\ search' = [search EXCEPT !.pc = "returned"]
    /\ UNCHANGED <<now, issued, auth_creds, pc, req, creds, headers, sent, chk, result,
                   calls, env, log, failed, reply, identity, client, tools>>

\* ------------------------------------------------------------ specifications
Next ==
    \/ Tick
    \/ \E t \in Callers : handle_call_tool(t)
    \/ \E t \in Callers : handle_list_tools(t)
    \/ \E t \in Callers : _make_request(t)
    \/ \E p \in Procs : _get_client_token(p)
    \/ \E p \in Procs : _get_refresh_token(p)
    \/ \E t \in Callers : _validate_and_gen_token(t)
    \/ \E t \in Callers : BuildHeaders(t)
    \/ \E t \in Callers : SendRequest(t)

\* The server as deployed (server.py, mcp_server.py): the handlers are
\* coroutines of one event loop and call the blocking client without an
\* await, so a tool invocation runs to its end before the next one starts.
\* The issuer is any issuer.
Init == InitWith("any", FALSE)
Spec == Init /\ [][Next]_vars

\* The deployed server whose blocking calls all return: the interpreter runs
\* a handler to its end, and every request is answered or cut off by the
\* timeout of the httpx client (timeout=30.0), so a step that can be taken is
\* taken.  The issuer is one whose tokens carry an expiry beyond the margin.
Fairness ==
    /\ \A p \in Procs : WF_vars(_get_client_token(p))
    /\ \A p \in Procs : WF_vars(_get_refresh_token(p))
    /\ \A t \in Callers : WF_vars(_validate_and_gen_token(t))
    /\ \A t \in Callers : WF_vars(BuildHeaders(t))
    /\ \A t \in Callers : WF_vars(SendRequest(t))
SpecFair == InitWith("long", FALSE) /\ [][Next]_vars /\ Fairness

\* The deployed server with an issuer whose tokens always carry an expiry
\* beyond the margin.
InitLong == InitWith("long", FALSE)
SpecLong == InitLong /\ [][Next]_vars

\* One EkaMCP instance shared by callers that run concurrently (threads):
\* the class holds no lock, so calls overlap step by step.
InitThreads == InitWith("any", TRUE)
SpecThreads == InitThreads /\ [][Next]_vars

\* The legacy client eka_mcp.EkaMCP driven by one caller at a time.
NextLegacy ==
    \/ Tick
    \/ \E t \in Callers : legacy_make_request(t)
    \/ \E p \in Procs : legacy_get_client_token(p)
    \/ \E p \in Procs : legacy_get_refresh_token(p)
    \/ \E p \in Procs : legacy_refresh_response(p)
    \/ \E t \in Callers : legacy_refresh_auth_token(t)
    \/ \E t \in Callers : BuildHeaders(t)
    \/ \E t \in Callers : SendRequest(t)

\* The issuer's lifetimes are beyond both margins.  The constructor is at its
\* call of _get_client_token: in eka_mcp_server/eka_mcp.py the pool has been
\* built by then, in eka_assist/eka_mcp.py it is built after that call.
InitLegacy ==
    /\ env = [issuer |-> "long", threads |-> FALSE]
    /\ now = 0
    /\ issued = 0
    /\ auth_creds = None
    /\ pc = [p \in Procs |-> IF p = 0 THEN "legacy_login" ELSE "idle"]
    /\ req = [p \in Procs |-> None]
    /\ creds = [p \in Procs |-> None]
    /\ headers = [p \in Procs |-> None]
    /\ sent = [p \in Procs |-> NoSent]
    /\ chk = [p \in Procs |-> None]
    /\ result = [p \in Procs |-> None]
    /\ calls = 0
    /\ log = <<>>
    /\ failed = {}
    /\ reply = [p \in Procs |-> None]
    /\ identity = Identity
    /\ client \in {"pool", "unset"}
    /\ tools = [p \in Procs |-> {}]
    /\ search = None
SpecLegacy == InitLegacy /\ [][NextLegacy]_vars

\* The search handler on a constructed instance, entered with any list of
\* protocols get_protocols may have returned.
NextSearch ==
    \/ download_image
    \/ _handle_search_protocols

InitSearch ==
    /\ env = [issuer |-> "long", threads |-> FALSE]
    /\ now = 0
    /\ issued = 2
    /\ log = <<"login", "refresh">>
    /\ auth_creds = WithPayload(TokenPair(2, [exp |-> Margin + 1]))
    /\ pc = [p \in Procs |-> IF p = 0 THEN "ready" ELSE "idle"]
    /\ req = [p \in Procs |-> None]
    /\ creds = [p \in Procs |-> None]
    /\ headers = [p \in Procs |-> None]
    /\ sent = [p \in Procs |-> NoSent]
    /\ chk = [p \in Procs |-> None]
    /\ result = [p \in Procs |-> None]
    /\ calls = 0
    /\ failed = {}
    /\ reply = [p \in Procs |-> None]
    /\ identity = Identity
    /\ client = "pool"
    /\ tools = [p \in Procs |-> {}]
    /\ \E ps \in ProtocolLists :
          search = [protocols |-> ps, i |-> 0, fetched |-> <<>>, output |-> <<>>,
                    pc |-> "loop"]
SpecSearch == InitSearch /\ [][NextSearch]_vars

\* ------------------------------------------------------------------ claims
\* C1 (as claimed): of two callers whose calls overlap and whose credential
\* checks examined the same cached credential, at most one sends a refresh
\* request; the other reuses its result.
C1_SingleInFlightRefresh ==
    \A t, u \in Callers :
        (t # u /\ chk[t] # None /\ chk[u] # None /\ chk[t].cred = chk[u].cred)
            => sent[t].refresh + sent[u].refresh <= 1

\* C2: a credential check that finds more than Margin seconds left on the
\* cached credential sends nothing and leaves auth_creds as it is.
C2_FreshCheckIsLocal ==
    [][\A t \in Callers :
        (/\ pc[t] = "validate"
         /\ pc'[t] # "validate"
         /\ "exp" \in DOMAIN auth_creds.jwt_payload
         /\ auth_creds.jwt_payload.exp - now > Margin)
            => /\ pc'[t] = "headers"
               /\ auth_creds' = auth_creds
               /\ issued' = issued
               /\ sent'[t] = NoSent]_vars

\* a check has returned on the fresh side
C2_Witness ==
    \E t \in Callers :
        /\ pc[t] = "headers"
        /\ chk[t].exp_at - chk[t].at > Margin
        /\ sent[t] = NoSent

\* C3 (as claimed): the credential check of a call makes at most one network
\* round trip, so a call sends at most one request besides its resource
\* request.
C3_AtMostOneRoundTrip ==
    \A t \in Callers : sent[t].login + sent[t].refresh <= 1

\* C4 (as claimed): a call whose verb is neither GET nor POST sends no
\* request at all and ends with the unsupported-verb error.
C4_UnsupportedVerbNoNetwork ==
    \A t \in Callers :
        /\ (req[t] # None /\ Lower(req[t].method) \notin SupportedMethods)
               => sent[t] = NoSent
        /\ (result[t] # None /\ result[t].at = "method") => sent[t] = NoSent

\* C5: when the refresh endpoint answers with a non-success status, the call
\* ends with RefreshTokenError and auth_creds is what it was before the step
\* and what the check examined when the call began.
C5_RefreshFailureKeepsCreds ==
    [][\A p \in Procs :
        (/\ pc[p] = "refresh"
         /\ result'[p] # None
         /\ result'[p].at = "refresh"
         /\ result'[p].cause = "status")
            => /\ result'[p].kind = "RefreshTokenError"
               /\ pc'[p] = Raised(p)
               /\ auth_creds' = auth_creds
               /\ (p \in Callers => auth_creds'.refresh_token = chk[p].cred)]_vars

\* a caller's refresh was rejected while a credential was cached
C5_Witness ==
    \E t \in Callers :
        /\ result[t] = Failure("RefreshTokenError", "refresh", "status")
        /\ auth_creds # None

C7_OnePrimaryCallNoRetry ==
    \A t \in Callers :
        /\ sent[t].resource <= 1
        /\ (result[t] # None /\ result[t].at = "resource")
               => (pc[t] = "idle" /\ sent[t].resource = 1)

\* the upstream rejected the resource request of a call that had just
\* re-authenticated
C7_Witness ==
    \E t \in Callers :
        /\ result[t] = Failure("HTTPStatusError", "resource", "status")
        /\ sent[t] = [login |-> 1, refresh |-> 1, resource |-> 1]

\* C8 (as claimed): no invocation of an advertised tool with non-empty
\* arguments ends because the client lacks the operation its handler calls.
C8_EveryToolReachesUpstream ==
    \A t \in Callers : \A name \in ToolNames :
        result[t] # Failure("AttributeError", "dispatch", name)

\* C9 (as claimed): a failure without a response and a failure by a non-2xx
\* response are never raised as the same kind of error.
C9_FailureKindsDistinct ==
    \A p, q \in Procs :
        (/\ result[p] # None
         /\ result[q] # None
         /\ result[p].cause = "transport"
         /\ result[q].cause = "status")
            => result[p].kind # result[q].kind

\* C10: when the login endpoint answers with a non-success status the call
\* ends with CreateTokenError after exactly one login request and no other
\* request, and auth_creds is not touched.
C10_LoginRejectionEndsCall ==
    /\ [](\A p \in Procs :
            (result[p] # None /\ result[p].at = "login" /\ result[p].cause = "status")
                => /\ result[p].kind = "CreateTokenError"
                   /\ sent[p] = [login |-> 1, refresh |-> 0, resource |-> 0]
                   /\ pc[p] = Raised(p))
    /\ [][\A p \in Procs :
            (pc[p] = "login" /\ result'[p] # None /\ result'[p].at = "login")
                => auth_creds' = auth_creds]_vars

\* the login of a caller's re-authentication was rejected
C10_Witness ==
    \E t \in Callers :
        /\ result[t] = Failure("CreateTokenError", "login", "status")
        /\ auth_creds # None

\* C11 (as claimed): whenever a credential check replaces the cached
\* credential, the expiry of the new credential is strictly later than the
\* expiry of the credential it replaced.
C11_ExpiryStrictlyLater ==
    [][\A t \in Callers :
        (/\ chk[t] # None
         /\ auth_creds # None
         /\ auth_creds' # auth_creds
         /\ pc'[t] = "headers")
            => auth_creds'.expires_at > auth_creds.expires_at]_vars

C13_FirstRequestCarriesLoginToken ==
    \A t \in Callers :
        (/\ pc[t] = "send"
         /\ calls = 1
         /\ chk[t].exp_at - chk[t].at > Margin)
            => /\ log[headers[t].id] = "login"
               /\ sent[t].refresh = 0

\* C14: a call whose check found the cached credential inside the margin
\* has sent its refresh request and received the answer before it sends the
\* resource request, and the Authorization header of the resource request
\* carries the access token that refresh returned, not the token the check
\* examined.
C14_RefreshThenAttach ==
    \A t \in Callers :
        /\ pc[t] \in {"login", "refresh"}
               => (sent[t].resource = 0 /\ headers[t] = None)
        /\ (pc[t] = "send" /\ chk[t].exp_at - chk[t].at <= Margin)
               => /\ sent[t].refresh = 1
                  /\ sent[t].resource = 0
                  /\ log[chk[t].got] = "refresh"
                  /\ chk[t].got # chk[t].cred
                  /\ headers[t].id = chk[t].got

\* a call that found the credential inside the margin is about to send its
\* resource request
C14_Witness ==
    \E t \in Callers :
        /\ pc[t] = "send"
        /\ chk[t].exp_at - chk[t].at <= Margin
        /\ sent[t].refresh = 1
        /\ headers[t] # None

\* C15 (as claimed): the check of the legacy client refreshes exactly when
\* the cached token has LegacyMargin seconds or less left; with more left it
\* sends nothing and leaves auth_creds alone.
C15_LegacyThreshold ==
    \A t \in Callers :
        /\ (chk[t] # None /\ chk[t].exp_at - chk[t].at > LegacyMargin)
               => /\ sent[t].refresh = 0
                  /\ pc[t] \notin {"legacy_refresh", "legacy_response"}
                  /\ auth_creds.refresh_token = chk[t].cred
        /\ (chk[t] # None /\ chk[t].exp_at - chk[t].at <= LegacyMargin)
               => pc[t] \in {"legacy_refresh", "legacy_response"} \/ sent[t].refresh = 1

\* C16: after a credential check has ended with RefreshTokenError, no call
\* puts the credential that was cached at that moment in an Authorization
\* header; the token a later call carries was returned by a refresh exchange
\* that followed a login exchange made after the failure.
C16_FailedCredentialNeverAttached ==
    \A t \in Callers : \A f \in failed :
        headers[t] # None
            => /\ headers[t].id # f.cred
               /\ log[headers[t].id] = "refresh"
               /\ log[headers[t].id - 1] = "login"
               /\ headers[t].id - 1 > f.issued

\* a call is about to send its resource request after an earlier check
\* ended with RefreshTokenError
C16_Witness ==
    \E t \in Callers :
        /\ pc[t] = "send"
        /\ failed # {}
        /\ \E u \in Callers : result[u] = Failure("RefreshTokenError", "refresh", "status")

\* C17: in every state, also between the two exchanges of a
\* re-authentication and after a failed one, the cached access token, refresh
\* token and decoded expiry belong to the same answer of the refresh endpoint.
C17_ReplacedWholesale ==
    auth_creds # None
        => /\ auth_creds.access_token.id = auth_creds.refresh_token
           /\ auth_creds.jwt_payload = jwt_decode(auth_creds.access_token)
           /\ auth_creds.refresh_token \in 1..issued
           /\ log[auth_creds.refresh_token] = "refresh"

\* a re-authentication is between its login and its refresh exchange after
\* an earlier one has failed at the refresh endpoint
C17_Witness ==
    \E t \in Callers :
        /\ pc[t] = "refresh"
        /\ creds[t] # None
        /\ failed # {}
        /\ auth_creds # None

\* C18 (as claimed): the refresh request of a credential check carries the
\* access token and the refresh token of the credential that is cached when
\* the request is sent.
C18_RefreshCarriesCachedPair ==
    \A t \in Callers :
        pc[t] = "refresh"
            => /\ creds[t].access_token = auth_creds.access_token
               /\ creds[t].refresh_token = auth_creds.refresh_token

\* C19 (as claimed): the expires_at the legacy client stores for a refreshed
\* credential is the clock at the moment the answer arrives plus the
\* expires_in of the answer, whatever time passed since the request left.
C19_ExpiryAtResponseTime ==
    [][\A p \in Procs :
        (pc[p] = "legacy_response" /\ auth_creds' # auth_creds)
            => auth_creds'.expires_at = now + auth_creds'.expires_in]_vars

\* C20 (as claimed): the expiry a credential check compares the clock with
\* is the exp claim of the cached access token, never a value the client
\* made up.
C20_ExpiryFromIssuer ==
    \A t \in Callers :
        (chk[t] # None /\ chk[t].cred = auth_creds.refresh_token)
            => /\ "exp" \in DOMAIN jwt_decode(auth_creds.access_token)
               /\ chk[t].exp_at = jwt_decode(auth_creds.access_token).exp

\* C21: a call is in progress only on an instance whose constructor has
\* ended with a cached credential; the token in an Authorization header was
\* returned by a refresh exchange that carried the answer of a successful
\* login exchange of this run, and a resource request is never sent before
\* the issuer has recorded a login.
C21_NoResourceCallWithoutLogin ==
    /\ pc[0] = "ready" => auth_creds # None
    /\ \A t \in Callers :
        /\ pc[t] # "idle" => (pc[0] = "ready" /\ auth_creds # None)
        /\ headers[t] # None
               => /\ headers[t].id \in 2..issued
                  /\ log[headers[t].id] = "refresh"
                  /\ log[headers[t].id - 1] = "login"
        /\ sent[t].resource > 0 => (log # <<>> /\ log[1] = "login")

\* a resource request was answered after the call had logged in again
C21_Witness ==
    \E t \in Callers :
        /\ result[t] = Ok
        /\ sent[t] = [login |-> 1, refresh |-> 1, resource |-> 1]
        /\ Len(log) > 2

\* C22: every call that has begun ends, with the decoded payload or with a
\* failure, and a request that got no answer within the timeout ends its
\* call with a failure.
C22_EveryCallTerminates ==
    /\ \A t \in Callers :
          (pc[t] # "idle") ~> (pc[t] = "idle" /\ result[t] # None)
    /\ [](\A t \in Callers :
            (result[t] # None /\ result[t].cause = "transport")
                => (pc[t] = "idle" /\ result[t] # Ok /\ reply[t] = None))

\* the resource request of a call was cut off by the timeout
C22_Witness ==
    \E t \in Callers :
        /\ result[t] = Failure("TransportError", "resource", "transport")
        /\ sent[t].resource = 1
        /\ pc[t] = "idle"

\* C23: once the constructor has ended, api_url, client_id and client_secret
\* of the instance are the values it was constructed with, whatever calls,
\* credential checks and failed or successful re-authentications followed.
C23_IdentityImmutable ==
    pc[0] = "ready"
        => /\ identity = Identity
           /\ DOMAIN identity = {"api_url", "client_id", "client_secret"}

\* a caller has re-authenticated after another re-authentication had failed
C23_Witness ==
    \E t \in Callers :
        /\ pc[t] = "headers"
        /\ sent[t].refresh = 1
        /\ failed # {}
        /\ identity.client_secret = "secret"

\* C24: a call whose credential check failed at the login or at the refresh
\* exchange has ended without a resource request and without a header built,
\* and the error it ended with is the one the check raised.
C24_FailedCheckBlocksCall ==
    \A t \in Callers :
        (result[t] # None /\ result[t].at \in {"login", "refresh"})
            => /\ pc[t] = "idle"
               /\ sent[t].resource = 0
               /\ headers[t] = None
               /\ reply[t] = None
               /\ result[t].kind = IF result[t].at = "login"
                                   THEN "CreateTokenError"
                                   ELSE "RefreshTokenError"

\* the login of a caller's credential check got no answer
C24_Witness ==
    \E t \in Callers :
        /\ result[t] = Failure("CreateTokenError", "login", "transport")
        /\ sent[t] = [login |-> 1, refresh |-> 0, resource |-> 0]

\* C25: in the deployed server no two calls are in progress at once, so at
\* most one re-authentication is in flight, and the credential a call works
\* with (the one its check examined, or the one its own refresh returned) is
\* the cached one: no other call replaced it meanwhile.
C25_InvocationsSerialised ==
    /\ \A t, u \in Callers : (pc[t] # "idle" /\ pc[u] # "idle") => t = u
    /\ Cardinality({t \in Callers : pc[t] \in {"login", "refresh"}}) <= 1
    /\ \A t \in Callers :
          chk[t] # None => chk[t].got = auth_creds.refresh_token

\* the second invocation is re-authenticating after the first has ended
C25_Witness ==
    \E t, u \in Callers :
        /\ t # u
        /\ pc[t] = "refresh"
        /\ result[u] # None
        /\ pc[u] = "idle"
        /\ calls = 2

\* C26: a tool call rejected for missing or empty arguments or for an
\* unknown tool name ends at once with ValueError: it sends no login,
\* refresh or resource request, examines no credential, and the step leaves
\* auth_creds and the issuer untouched.
C26_RejectedCallsTouchNothing ==
    /\ [](\A t \in Callers :
            (result[t] # None /\ result[t].at = "dispatch" /\ result[t].kind = "ValueError")
                => /\ pc[t] = "idle"
                   /\ sent[t] = NoSent
                   /\ req[t] = None
                   /\ chk[t] = None
                   /\ reply[t] = None)
    /\ [][\A t \in Callers :
            (/\ result'[t] # result[t]
             /\ result'[t] # None
             /\ result'[t].at = "dispatch"
             /\ result'[t].kind = "ValueError")
                => (auth_creds' = auth_creds /\ issued' = issued /\ log' = log)]_vars

\* a call with an unknown tool name was rejected on an instance that had
\* sent requests before
C26_Witness ==
    \E t, u \in Callers :
        /\ result[t] = Failure("ValueError", "dispatch", "unknown_tool")
        /\ sent[t] = NoSent
        /\ result[u] = Ok

\* C27: at every point of the loop of _handle_search_protocols a download
\* has been attempted for each protocol handled so far, the output holds
\* exactly one image for each of them whose download returned, in the order
\* of the protocols, and the handler returns only after the last protocol,
\* whatever downloads failed.
C27_DownloadFailuresIsolated ==
    LET done == {k \in 1..search.i : search.fetched[k] = "data"}
        nth(j) == CHOOSE k \in done : Cardinality({m \in done : m <= k}) = j
    IN /\ Len(search.fetched) = search.i
       /\ Len(search.output) = Cardinality(done)
       /\ \A j \in 1..Len(search.output) :
              search.output[j] =
                  ImageContent(DictGet(search.protocols[nth(j)], "url", "None"))
       /\ search.pc = "returned" => search.i = Len(search.protocols)

\* the handler returned two images for three protocols, the download of the
\* second having failed
C27_Witness ==
    /\ search.pc = "returned"
    /\ Len(search.protocols) = 3
    /\ search.fetched = <<"data", "raise", "data">>
    /\ Len(search.output) = 2

\* C28: handle_list_tools returns the four tools only after its one tags
\* request, sent once the credential check passed, was answered with a 2xx;
\* while the listing is in progress nothing is returned, and a listing whose
\* credential check or tags request failed returns no tools.
C28_ListingDependsOnUpstream ==
    \A t \in Callers :
        /\ tools[t] # {} =>
              /\ tools[t] = ToolNames
              /\ pc[t] = "idle"
              /\ result[t] = Ok
              /\ reply[t] # None
              /\ sent[t].resource = 1
        /\ (req[t] # None /\ req[t].endpoint = "protocols/v1/tags") =>
              /\ tools[t] = {}
              /\ sent[t].resource = 0
              /\ pc[t] = "send" => (chk[t] # None /\ headers[t] # None)

\* a listing returned the four tools after its credential check had
\* re-authenticated
C28_Witness ==
    \E t \in Callers :
        /\ tools[t] = ToolNames
        /\ result[t] = Ok
        /\ sent[t] = [login |-> 1, refresh |-> 1, resource |-> 1]

\* C29 (as claimed): the constructor issues its first authentication request
\* with the pooled client in place, so construction fails only when the
\* issuer or the transport refuses an exchange that was sent, never for a
\* missing client attribute, and a finished construction has a cached
\* credential.
C29_PoolBeforeFirstCall ==
    /\ pc[0] = "crashed" =>
          /\ sent[0].login >= 1
          /\ result[0].kind # "AttributeError"
    /\ pc[0] = "ready" => (auth_creds # None /\ HasClient(client))

====
